---------------------------- MODULE Spec2Model ----------------------------
(***************************************************************************)
(* Model of src/src/skb_msdf.cpp: the MSDF glyph rasterizer of Skribidi.   *)
(*                                                                         *)
(* One call of skb_rasterizer_draw_msdf_glyph is three kinds of step:      *)
(*   Call      lines 86-108: the precondition check, the empty Shape and   *)
(*             the build context;                                          *)
(*   Hb...     the five draw callbacks (lines 20-74), which HarfBuzz's     *)
(*             hb_font_draw_glyph (line 111) invokes once per command of   *)
(*             the glyph's outline stream;                                 *)
(*   Finish    lines 112-179, after hb_font_draw_glyph returned: the       *)
(*             empty-shape memset, or normalize / edge colouring / field   *)
(*             generation / quantization into the target buffer.           *)
(*                                                                         *)
(* Numbers.  Floats are modelled by exact rationals <<n, d>> (d > 0).  Raw *)
(* field samples are fixed-point values k / SampleDen with SampleDen a     *)
(* power of two, for which the float arithmetic of lines 168-175 is exact. *)
(*                                                                         *)
(* Inputs.  font_size and upem_scale are positive; a target's stride is    *)
(* either not positive (the code then uses width*3) or at least width*3;   *)
(* the caller's buffer is large enough for height rows of the stride.      *)
(*                                                                         *)
(* msdfgen (Shape::normalize, edgeColoringSimple, generateMSDF) is an      *)
(* external library.  The model records that each is invoked and with what *)
(* arguments; the generated field is a fixed deterministic function of the *)
(* arguments of generateMSDF with values on the sample grid.               *)
(***************************************************************************)
EXTENDS Integers, Sequences, FiniteSets, TLC

VARIABLES
    pc,         \* "idle" | "draw" (inside hb_font_draw_glyph) | "done"
    font,       \* argument font: [null, upem]
    target,     \* argument target: [null, width, height, stride_bytes, bpp]
    font_size,  \* argument font_size
    offset,     \* arguments <<offset_x, offset_y>>
    buf0,       \* target->buffer as the caller handed it in
    buffer,     \* target->buffer
    shape,      \* msdfgen::Shape shape: a sequence of contours (sequences of edges)
    ctx,        \* MsdfBuildContext: [contour, lastPoint]; contour 0 is nullptr
    stream,     \* the commands HarfBuzz has emitted in this call
    invoked,    \* the msdfgen entry points called after the outline was drawn
    genArgs,    \* the arguments generateMSDF was called with
    msdf,       \* msdfgen::Bitmap<float, 3> msdf
    ret,        \* the call's return value
    rec,        \* a completed call kept for comparison: [set, in, ret, buffer]
    calls       \* calls started since rec was taken

vars == <<pc, font, target, font_size, offset, buf0, buffer, shape, ctx,
          stream, invoked, genArgs, msdf, ret, rec, calls>>

-----------------------------------------------------------------------------
(* Bounds of the model *)

MaxW == 1
MaxH == 2
MaxPad == 1
MaxGlyphCmds == 2
MaxCmds == 4
MaxDetCmds == 2
MaxCalls == 2
SampleBits == 2

(* Program constants *)

Bpp == 3
PxRange == 4

-----------------------------------------------------------------------------
(* Rationals <<n, d>> with d > 0 *)

Rat(n, d) == IF d < 0 THEN <<-n, -d>> ELSE <<n, d>>
RatEq(a, b) == a[1] * b[2] = b[1] * a[2]
RatMul(a, b) == Rat(a[1] * b[1], a[2] * b[2])
RatDiv(a, b) == Rat(a[1] * b[2], a[2] * b[1])
RatNeg(a) == <<-a[1], a[2]>>
RatAdd(a, b) == Rat(a[1] * b[2] + b[1] * a[2], a[2] * b[2])
RatLess(a, b) == a[1] * b[2] < b[1] * a[2]

-----------------------------------------------------------------------------
(* Data *)

Origin == <<0, 0>>

NullFont == [null |-> TRUE, upem |-> 1]
NullTarget == [null |-> TRUE, width |-> 0, height |-> 0, stride_bytes |-> 0, bpp |-> 0]

Strides(w) == {0} \cup {w * Bpp + p : p \in 0..MaxPad}

Image(w, h, s, b) ==
    [null |-> FALSE, width |-> w, height |-> h, stride_bytes |-> s, bpp |-> b]

BufLen == MaxH * (Bpp * MaxW + MaxPad) + 2
BufIdx == 0..(BufLen - 1)

SampleDen == 2 ^ SampleBits
SampleMax == (3 * SampleDen) \div 2
Samples == (-SampleMax)..SampleMax

NoArgs == [set |-> FALSE, scale |-> <<0, 1>>, translate |-> <<Origin, Origin>>,
           range |-> <<0, 1>>, width |-> 0, height |-> 0]
NoRec == [set |-> FALSE, in |-> <<>>, ret |-> FALSE, buffer |-> <<>>]
NoBitmap == <<>>


-----------------------------------------------------------------------------
(* Input domains.  A domain names the fonts, targets, sizes, offsets and   *)
(* outline points a specification draws its calls from, the longest        *)
(* outline stream HarfBuzz emits, and whether the caller calls again after *)
(* a call has returned.                                                    *)

Fonts == {NullFont, [null |-> FALSE, upem |-> 1], [null |-> FALSE, upem |-> 2]}

AllTargets ==
    {NullTarget} \cup
    {Image(w, h, s, b) : w \in 0..MaxW, h \in 0..MaxH, s \in 0..(Bpp * MaxW + MaxPad),
                         b \in {Bpp, Bpp + 1}}

WellFormed(t) == t.null \/ t.stride_bytes \in Strides(t.width)

RasterDom ==
    [fonts |-> Fonts,
     targets |-> {t \in AllTargets : WellFormed(t)},
     sizes |-> {1, 2},
     offsets |-> {Origin, <<1, 2>>},
     points |-> {<<1, 0>>, <<0, 1>>},
     ctrls |-> {<<1, 1>>},
     maxCmds |-> MaxGlyphCmds,
     again |-> FALSE]

ShapeDom ==
    [fonts |-> {[null |-> FALSE, upem |-> 1]},
     targets |-> {Image(1, 1, 0, Bpp)},
     sizes |-> {1},
     offsets |-> {Origin},
     points |-> {<<1, 0>>, <<0, 1>>},
     ctrls |-> {<<1, 1>>},
     maxCmds |-> MaxCmds,
     again |-> FALSE]

DetDom ==
    [fonts |-> {NullFont, [null |-> FALSE, upem |-> 1]},
     targets |-> {NullTarget, Image(1, 2, Bpp + 1, Bpp), Image(1, 1, 0, Bpp + 1)},
     sizes |-> {1, 2},
     offsets |-> {Origin},
     points |-> {<<1, 0>>},
     ctrls |-> {<<1, 1>>},
     maxCmds |-> MaxDetCmds,
     again |-> TRUE]

-----------------------------------------------------------------------------
(* Shape Builder: the HarfBuzz draw callbacks.  Each takes the Shape and   *)
(* the build context and gives them back as [shape, ctx].                  *)

Built(sh, cx) == [shape |-> sh, ctx |-> cx]

Edge(kind, pts) == [kind |-> kind, p |-> pts]

AddEdge(sh, cx, e) == [sh EXCEPT ![cx.contour] = Append(@, e)]

msdf_move_to(sh, cx, to) ==
    Built(Append(sh, <<>>), [contour |-> Len(sh) + 1, lastPoint |-> to])

\* Mutant: without an open contour the line opens one
msdf_line_to_AutoOpen(sh, cx, to) ==
    IF cx.contour = 0
    THEN Built(Append(sh, <<Edge("linear", <<cx.lastPoint, to>>)>>),
               [contour |-> Len(sh) + 1, lastPoint |-> to])
    ELSE Built(AddEdge(sh, cx, Edge("linear", <<cx.lastPoint, to>>)),
               [cx EXCEPT !.lastPoint = to])

msdf_line_to(sh, cx, to) ==
    IF cx.contour = 0 THEN Built(sh, cx)
    ELSE Built(AddEdge(sh, cx, Edge("linear", <<cx.lastPoint, to>>)),
               [cx EXCEPT !.lastPoint = to])

\* Mutant: the current point is not moved to the curve's end
msdf_quadratic_to_NoAdvance(sh, cx, c1, to) ==
    IF cx.contour = 0 THEN Built(sh, cx)
    ELSE Built(AddEdge(sh, cx, Edge("quadratic", <<cx.lastPoint, c1, to>>)), cx)

msdf_quadratic_to(sh, cx, c1, to) ==
    IF cx.contour = 0 THEN Built(sh, cx)
    ELSE Built(AddEdge(sh, cx, Edge("quadratic", <<cx.lastPoint, c1, to>>)),
               [cx EXCEPT !.lastPoint = to])

msdf_cubic_to(sh, cx, c1, c2, to) ==
    IF cx.contour = 0 THEN Built(sh, cx)
    ELSE Built(AddEdge(sh, cx, Edge("cubic", <<cx.lastPoint, c1, c2, to>>)),
               [cx EXCEPT !.lastPoint = to])

msdf_close_path(sh, cx) == Built(sh, cx)

Cmd(op, pts) == [op |-> op, pts |-> pts]

-----------------------------------------------------------------------------
(* Field Rasterizer: the pieces of skb_rasterizer_draw_msdf_glyph *)

\* Mutant: the bytes-per-pixel test is left out
PreconditionFails_NoBpp(f, t) == f.null \/ t.null

\* line 89: if (!font || !target || target->bpp != 3) return false;
PreconditionFails(f, t) == f.null \/ t.null \/ t.bpp # Bpp

\* Mutant: a shape whose contours have no edges counts as empty
ShapeEmpty_NoEdges(sh) == \A i \in DOMAIN sh : Len(sh[i]) = 0

\* line 115: shape.contours.empty()
ShapeEmpty(sh) == Len(sh) = 0

\* line 117: memset(target->buffer, 0, n)
memset(buf, val, n) == [i \in DOMAIN buf |-> IF i < n THEN val ELSE buf[i]]

\* Mutant: the channel count is left out of the byte count
FillBytes_NoChannels(t) == t.width * t.height

\* line 117: the byte count target->width * target->height * 3
FillBytes(t) == t.width * t.height * 3

\* line 130: font_size * font->upem_scale, with upem_scale = 1 / units per em
ScaleOf(fs, f) == RatMul(<<fs, 1>>, <<1, f.upem>>)

\* lines 138-141: Projection(Vector2(scale, -scale),
\*                           Vector2(offset_x / scale, -offset_y / scale))
ProjectionOf(scale, off) ==
    [scale |-> <<scale, RatNeg(scale)>>,
     translate |-> <<RatDiv(<<off[1], 1>>, scale), RatDiv(<<-off[2], 1>>, scale)>>]

\* Mutant: the pixel range is passed on without the division by the scale
RangeOf_Pixels(scale) == <<PxRange, 1>>

\* lines 144-148: msdfgen::Range range(pxRange / scale)
RangeOf(scale) == RatDiv(<<PxRange, 1>>, scale)

\* Mutant: rows are packed, the stride is ignored
RowStride_Packed(t) == t.width * 3

\* line 156: target->stride_bytes > 0 ? target->stride_bytes : target->width * 3
RowStride(t) == IF t.stride_bytes > 0 THEN t.stride_bytes ELSE t.width * 3

\* skb_clampf(v, lo, hi), used at lines 173-175
skb_clampf(v, lo, hi) == IF RatLess(v, lo) THEN lo ELSE IF RatLess(hi, v) THEN hi ELSE v

\* (uint8_t) of a non-negative float: the fraction is dropped
ToUint8(v) == (v[1] \div v[2]) % 256

\* Mutant: the cast truncates without the + 0.5f
Quantize_NoRound(r) ==
    LET n == RatAdd(<<1, 2>>, RatMul(<<r, SampleDen>>, <<1, 2>>))
    IN ToUint8(RatMul(skb_clampf(n, <<0, 1>>, <<1, 1>>), <<255, 1>>))

\* lines 168-175 for one channel; the raw sample is r / SampleDen
Quantize(r) ==
    LET n == RatAdd(<<1, 2>>, RatMul(<<r, SampleDen>>, <<1, 2>>))
    IN ToUint8(RatAdd(RatMul(skb_clampf(n, <<0, 1>>, <<1, 1>>), <<255, 1>>), <<1, 2>>))

(* msdfgen::generateMSDF (line 150), an external library: a deterministic  *)
(* function of the shape, the projection, the range and the pixel, with    *)
(* values on the sample grid.                                              *)
PtSig(p) == 2 * p[1] + 3 * p[2] + 1

EdgeSig(e) ==
    LET S[k \in 0..Len(e.p)] == IF k = 0 THEN Len(e.p) ELSE S[k - 1] + k * PtSig(e.p[k])
    IN S[Len(e.p)]

ContourSig(c) ==
    LET S[j \in 0..Len(c)] == IF j = 0 THEN 1 ELSE S[j - 1] + (j + 1) * EdgeSig(c[j])
    IN S[Len(c)]

ShapeSig(sh) ==
    LET S[i \in 0..Len(sh)] == IF i = 0 THEN 0 ELSE S[i - 1] + i * ContourSig(sh[i])
    IN S[Len(sh)]

generateMSDF(sh, proj, range, w, h) ==
    LET base == ShapeSig(sh) + proj.scale[1][1] + proj.translate[1][1] + range[1]
    IN [px \in (0..(w - 1)) \X (0..(h - 1)) |->
          [c \in 1..3 |->
             ((base + 5 * px[1] + 7 * px[2] + 3 * c) % (2 * SampleMax + 1)) - SampleMax]]

\* lines 159-175: one pixel of the copy loop
StorePixel(buf, bm, t, x, y) ==
    LET dst == y * RowStride(t) + x * 3
    IN [buf EXCEPT ![dst] = Quantize(bm[<<x, y>>][1]),
                   ![dst + 1] = Quantize(bm[<<x, y>>][2]),
                   ![dst + 2] = Quantize(bm[<<x, y>>][3])]

\* lines 157-177: for y, for x, in that order; k counts the pixels done
RECURSIVE CopyLoop(_, _, _, _)
CopyLoop(buf, bm, t, k) ==
    IF k >= t.width * t.height THEN buf
    ELSE CopyLoop(StorePixel(buf, bm, t, k % t.width, k \div t.width), bm, t, k + 1)

CopyToTarget(buf, bm, t) == CopyLoop(buf, bm, t, 0)

\* Mutant: the Shape outlives the call (a static)
NewShape_Static(old) == old

\* line 94: msdfgen::Shape shape; (old: what the previous call left behind)
NewShape(old) == <<>>

\* lines 106-108: MsdfBuildContext ctx; ctx.contour = nullptr;
NewCtx(old) == [contour |-> 0, lastPoint |-> Origin]

-----------------------------------------------------------------------------
(* The state machine *)

\* the caller's buffer, every byte the sentinel 0xAA
FreshBuffer == [i \in BufIdx |-> 170]

Inputs == <<font, target, font_size, offset, buf0, stream>>

Init ==
    /\ pc = "idle"
    /\ font = NullFont
    /\ target = NullTarget
    /\ font_size = 1
    /\ offset = Origin
    /\ buf0 = FreshBuffer
    /\ buffer = FreshBuffer
    /\ shape = <<>>
    /\ ctx = NewCtx(<<>>)
    /\ stream = <<>>
    /\ invoked = <<>>
    /\ genArgs = NoArgs
    /\ msdf = NoBitmap
    /\ ret = FALSE
    /\ rec = NoRec
    /\ calls = 0

\* lines 76-108: entry, the precondition check, the Shape and the context
Call(D) ==
    /\ pc = "idle" \/ (pc = "done" /\ D.again)
    /\ rec.set => calls < MaxCalls
    /\ calls' = IF rec.set THEN calls + 1 ELSE calls
    /\ \E f \in D.fonts, t \in D.targets, fs \in D.sizes, off \in D.offsets :
          /\ font' = f
          /\ target' = t
          /\ font_size' = fs
          /\ offset' = off
          /\ IF PreconditionFails(f, t)
             THEN \* line 90: return false; the locals below are never constructed
                  /\ pc' = "done"
                  /\ ret' = FALSE
                  /\ shape' = <<>>
                  /\ ctx' = NewCtx(<<>>)
             ELSE /\ pc' = "draw"
                  /\ ret' = FALSE
                  /\ shape' = NewShape(shape)
                  /\ ctx' = NewCtx(ctx)
    /\ buf0' = FreshBuffer
    /\ buffer' = FreshBuffer
    /\ stream' = <<>>
    /\ invoked' = <<>>
    /\ genArgs' = NoArgs
    /\ msdf' = NoBitmap
    /\ UNCHANGED rec

Emit(cmd, b) ==
    /\ stream' = Append(stream, cmd)
    /\ shape' = b.shape
    /\ ctx' = b.ctx
    /\ UNCHANGED <<pc, font, target, font_size, offset, buf0, buffer, invoked,
                   genArgs, msdf, ret, rec, calls>>

\* hb_font_draw_glyph (line 111) emits one command
HbMoveTo(D) ==
    /\ pc = "draw" /\ Len(stream) < D.maxCmds
    /\ \E to \in D.points :
          Emit(Cmd("move_to", <<to>>), msdf_move_to(shape, ctx, to))

HbLineTo(D) ==
    /\ pc = "draw" /\ Len(stream) < D.maxCmds
    /\ \E to \in D.points :
          Emit(Cmd("line_to", <<to>>), msdf_line_to(shape, ctx, to))

HbQuadraticTo(D) ==
    /\ pc = "draw" /\ Len(stream) < D.maxCmds
    /\ \E c1 \in D.ctrls, to \in D.points :
          Emit(Cmd("quadratic_to", <<c1, to>>), msdf_quadratic_to(shape, ctx, c1, to))

HbCubicTo(D) ==
    /\ pc = "draw" /\ Len(stream) < D.maxCmds
    /\ \E c1 \in D.ctrls, c2 \in D.ctrls, to \in D.points :
          Emit(Cmd("cubic_to", <<c1, c2, to>>), msdf_cubic_to(shape, ctx, c1, c2, to))

HbClosePath(D) ==
    /\ pc = "draw" /\ Len(stream) < D.maxCmds
    /\ Emit(Cmd("close_path", <<>>), msdf_close_path(shape, ctx))

\* lines 112-179: hb_font_draw_glyph has returned
Finish ==
    /\ pc = "draw"
    /\ IF ShapeEmpty(shape)
       THEN /\ buffer' = memset(buffer, 0, FillBytes(target))
            /\ UNCHANGED <<invoked, genArgs, msdf>>
       ELSE LET scale == ScaleOf(font_size, font)
                proj == ProjectionOf(scale, offset)
                range == RangeOf(scale)
                bm == generateMSDF(shape, proj, range, target.width, target.height)
            IN /\ invoked' = <<"normalize", "edgeColoringSimple", "generateMSDF">>
               /\ genArgs' = [set |-> TRUE, scale |-> proj.scale,
                              translate |-> proj.translate, range |-> range,
                              width |-> target.width, height |-> target.height]
               /\ msdf' = bm
               /\ buffer' = CopyToTarget(buffer, bm, target)
    /\ ret' = TRUE
    /\ pc' = "done"
    /\ UNCHANGED <<font, target, font_size, offset, buf0, shape, ctx, stream, rec, calls>>

\* The observer keeps one completed call to compare later calls with
Record ==
    /\ pc = "done"
    /\ ~rec.set
    /\ rec' = [set |-> TRUE, in |-> Inputs, ret |-> ret, buffer |-> buffer]
    /\ UNCHANGED <<pc, font, target, font_size, offset, buf0, buffer, shape, ctx,
                   stream, invoked, genArgs, msdf, ret, calls>>

Next ==
    \/ Call(RasterDom)
    \/ HbMoveTo(RasterDom)
    \/ HbLineTo(RasterDom)
    \/ HbQuadraticTo(RasterDom)
    \/ HbCubicTo(RasterDom)
    \/ HbClosePath(RasterDom)
    \/ Finish

Spec == Init /\ [][Next]_vars

NextShape ==
    \/ Call(ShapeDom)
    \/ HbMoveTo(ShapeDom)
    \/ HbLineTo(ShapeDom)
    \/ HbQuadraticTo(ShapeDom)
    \/ HbCubicTo(ShapeDom)
    \/ HbClosePath(ShapeDom)
    \/ Finish

SpecShape == Init /\ [][NextShape]_vars

NextDet ==
    \/ Call(DetDom)
    \/ HbMoveTo(DetDom)
    \/ HbLineTo(DetDom)
    \/ HbQuadraticTo(DetDom)
    \/ HbCubicTo(DetDom)
    \/ HbClosePath(DetDom)
    \/ Finish
    \/ Record

SpecDet == Init /\ [][NextDet]_vars

-----------------------------------------------------------------------------
(* Vocabulary of the properties *)

MoveIdx(st) == {i \in DOMAIN st : st[i].op = "move_to"}
NumMoveTo(st) == Cardinality(MoveIdx(st))
DrawOps == {"line_to", "quadratic_to", "cubic_to"}
KindOf(op) ==
    CASE op = "line_to" -> "linear"
      [] op = "quadratic_to" -> "quadratic"
      [] op = "cubic_to" -> "cubic"
      [] OTHER -> "none"

\* the point of the i-th MoveTo of a stream
MovePoint(st, i) ==
    LET k == CHOOSE m \in MoveIdx(st) : Cardinality({n \in MoveIdx(st) : n <= m}) = i
    IN st[k].pts[1]

LastPt(pts) == pts[Len(pts)]

Pixels == (0..(target.width - 1)) \X (0..(target.height - 1))

\* the row pitch the spec prescribes
SpecStride == IF target.stride_bytes > 0 THEN target.stride_bytes ELSE target.width * 3
PixelOffset(px, c) == px[2] * SpecStride + px[1] * 3 + c
PixelOffsets == {PixelOffset(px, c) : px \in Pixels, c \in 0..2}

PreconditionsHold == ~font.null /\ ~target.null /\ target.bpp = 3

-----------------------------------------------------------------------------
(* C1.  Precondition failure: a call with a null font, a null target or a  *)
(* target whose bytes-per-pixel is not 3 returns false, and the target     *)
(* buffer after the call equals the buffer before it; no outline command   *)
(* was drawn and no msdfgen entry point was invoked.                       *)
C1_PreconditionFailure ==
    (pc = "done" /\ ~PreconditionsHold) =>
        /\ ret = FALSE
        /\ buffer = buf0
        /\ stream = <<>> /\ invoked = <<>>

C1_Witness ==
    /\ pc = "done"
    /\ ~font.null /\ ~target.null /\ target.bpp # 3
    /\ target.width > 0 /\ target.height > 1
    /\ target.stride_bytes > target.width * 3
    /\ font_size = 2 /\ offset # Origin

C3_StridePaddingUntouched ==
    (pc = "done" /\ ret /\ target.stride_bytes > target.width * 3) =>
        \A y \in 0..(target.height - 1) :
            \A o \in (target.width * 3)..(target.stride_bytes - 1) :
                buffer[y * target.stride_bytes + o] = buf0[y * target.stride_bytes + o]

(* C4.  Full population: with the preconditions holding and a shape of at  *)
(* least one contour, the call returns true, the three quantized channel   *)
(* bytes of every pixel (x, y) are at offsets y*row_stride + x*3 + {0,1,2} *)
(* with row_stride = stride_bytes if positive and width*3 otherwise, and   *)
(* every other byte of the buffer is the one the caller handed in.         *)
C4_FullPopulation ==
    (pc = "done" /\ PreconditionsHold /\ Len(shape) >= 1) =>
        /\ ret = TRUE
        /\ DOMAIN msdf = Pixels
        /\ \A px \in Pixels : \A c \in 0..2 :
              buffer[PixelOffset(px, c)] = Quantize(msdf[px][c + 1])
        /\ \A i \in BufIdx \ PixelOffsets : buffer[i] = buf0[i]

C4_Witness ==
    /\ pc = "done" /\ PreconditionsHold /\ ret /\ Len(shape) >= 1
    /\ target.width > 0 /\ target.height > 1
    /\ target.stride_bytes > target.width * 3
    /\ \E px \in Pixels : px[2] = 1 /\ buffer[PixelOffset(px, 2)] # buf0[PixelOffset(px, 2)]

\* the byte the spec prescribes for the raw sample r / SampleDen
C5_ByteOf(r, b) ==
    LET n2 == IF SampleDen + r < 0 THEN 0
              ELSE IF SampleDen + r > 2 * SampleDen THEN 2 * SampleDen
              ELSE SampleDen + r
        v == 255 * n2 + SampleDen
    IN /\ b \in 0..255
       /\ 2 * SampleDen * b <= v /\ v < 2 * SampleDen * (b + 1)
       /\ r >= SampleDen => b = 255
       /\ r <= -SampleDen => b = 0
       /\ r > 0 => b > 127
       /\ r < 0 => b <= 127

(* C5.  Quantization: every stored channel byte b of a raw sample          *)
(* r / SampleDen is floor(clamp(0.5 + r*0.5, 0, 1) * 255 + 0.5); it lies   *)
(* in 0..255, is 255 for r >= 1 and 0 for r <= -1, is above 127 for r > 0  *)
(* and at most 127 for r < 0.                                              *)
C5_Quantization ==
    (pc = "done" /\ genArgs.set) =>
        \A px \in Pixels : \A c \in 0..2 :
            C5_ByteOf(msdf[px][c + 1], buffer[PixelOffset(px, c)])

C5_Witness ==
    /\ pc = "done" /\ genArgs.set
    /\ \E px \in Pixels :
          /\ \E c \in 1..3 : msdf[px][c] > SampleDen
          /\ \E c \in 1..3 : msdf[px][c] < -SampleDen
    /\ \E px \in Pixels : \E c \in 1..3 : msdf[px][c] \in {-1, 0, 1}

(* C6.  Determinism and statelessness: a call whose inputs (font, target   *)
(* descriptor, font size, offsets, initial buffer contents and glyph       *)
(* command stream) equal those of the recorded earlier call returns the    *)
(* same boolean and leaves the same buffer, whatever calls ran between.    *)
C6_Determinism ==
    (pc = "done" /\ rec.set /\ Inputs = rec.in) =>
        (ret = rec.ret /\ buffer = rec.buffer)

C6_Witness ==
    /\ pc = "done" /\ rec.set /\ Inputs = rec.in
    /\ calls = 2
    /\ ret /\ Len(shape) >= 1 /\ Len(stream) >= 2

(* C7.  Constant pixel gradient width: the range passed to field           *)
(* generation is 4 / (font_size * upem_scale); multiplied by the           *)
(* projection's pixel scale it is 4; doubling font_size halves it.         *)
C7_ConstantPixelRange ==
    (pc = "done" /\ genArgs.set) =>
        /\ genArgs.range[1] * font_size = 4 * font.upem * genArgs.range[2]
        /\ RatEq(RatMul(genArgs.range, genArgs.scale[1]), <<4, 1>>)
        /\ RatEq(RatMul(genArgs.range, genArgs.scale[2]), <<-4, 1>>)
        /\ RatEq(RatMul(RangeOf(ScaleOf(2 * font_size, font)), <<2, 1>>), genArgs.range)

C7_Witness ==
    /\ pc = "done" /\ genArgs.set
    /\ font_size = 2 /\ font.upem = 2
    /\ genArgs.range = <<8, 2>>

(* C8.  No-open-contour guard: a LineTo, QuadTo, CubicTo (or ClosePath)    *)
(* that arrives before the first MoveTo adds no contour and no edge and    *)
(* leaves the current point alone; the shape then has zero contours.       *)
C8_NoOpenContourGuard ==
    [][(pc = "draw" /\ Len(stream') = Len(stream) + 1 /\ NumMoveTo(stream') = 0) =>
          (shape' = shape /\ ctx' = ctx /\ shape' = <<>>)]_vars

C8_Witness ==
    /\ pc = "draw"
    /\ NumMoveTo(stream) = 0
    /\ {stream[i].op : i \in DOMAIN stream} = DrawOps \cup {"close_path"}
    /\ shape = <<>> /\ ctx.contour = 0

C9_Chained ==
    \A i \in DOMAIN shape : \A j \in DOMAIN shape[i] :
        shape[i][j].p[1] =
            IF j = 1 THEN MovePoint(stream, i) ELSE LastPt(shape[i][j - 1].p)

C9_Step ==
    (pc = "draw" /\ Len(stream') = Len(stream) + 1) =>
        LET cmd == stream'[Len(stream')]
            n == Len(shape)
        IN /\ (cmd.op \in DrawOps /\ NumMoveTo(stream) >= 1) =>
                 /\ Len(shape') = n
                 /\ \A i \in 1..(n - 1) : shape'[i] = shape[i]
                 /\ Len(shape'[n]) = Len(shape[n]) + 1
                 /\ SubSeq(shape'[n], 1, Len(shape[n])) = shape[n]
                 /\ shape'[n][Len(shape'[n])].kind = KindOf(cmd.op)
                 /\ LastPt(shape'[n][Len(shape'[n])].p) = LastPt(cmd.pts)
                 /\ ctx' = [ctx EXCEPT !.lastPoint = LastPt(cmd.pts)]
           /\ cmd.op = "close_path" => (shape' = shape /\ ctx' = ctx)

(* C9.  Edge chaining: every edge starts at the endpoint of the edge       *)
(* before it in its contour, or at the point of the contour's MoveTo when  *)
(* it is the first; a draw command after a MoveTo appends exactly one edge *)
(* of its kind, ending at the command's point, to the last contour and     *)
(* moves the current point there; ClosePath changes nothing.               *)
C9_EdgeChaining == [](C9_Chained) /\ [][C9_Step]_vars

C9_Witness ==
    /\ pc = "draw"
    /\ Len(shape) = 1 /\ Len(shape[1]) = 2
    /\ shape[1][1].kind # shape[1][2].kind
    /\ shape[1][1].p[1] # LastPt(shape[1][1].p)
    /\ stream[3].op = "close_path"

(* C10.  Contour count and branch selection: the shape has as many         *)
(* contours as the stream has MoveTo commands; a completed call took the   *)
(* all-zero fill branch exactly when the stream has no MoveTo, and the     *)
(* normalize / colour / generate / quantize branch otherwise.              *)
C10_ContoursAndBranch ==
    /\ (pc \in {"draw", "done"} /\ PreconditionsHold) => Len(shape) = NumMoveTo(stream)
    /\ (pc = "done" /\ PreconditionsHold) =>
          IF NumMoveTo(stream) = 0
          THEN /\ invoked = <<>> /\ ~genArgs.set
               /\ buffer = [i \in BufIdx |->
                              IF i < target.width * target.height * 3 THEN 0 ELSE buf0[i]]
          ELSE /\ invoked = <<"normalize", "edgeColoringSimple", "generateMSDF">>
               /\ genArgs.set

C10_Witness ==
    /\ pc = "done" /\ PreconditionsHold /\ ret
    /\ NumMoveTo(stream) = 2 /\ Len(stream) = 2
    /\ shape = <<<<>>, <<>>>>
    /\ genArgs.set

=============================================================================
